---- MODULE Spec2Model ----
(***************************************************************************)
(* lmms2mid: the conversion pipeline of src/main.rs (fn main) over the     *)
(* project model of src/lmms_model.rs.  One run of main is one behaviour:  *)
(* the loaded project and the command line are fixed by Init, and every    *)
(* block or loop iteration of main is one action.                          *)
(***************************************************************************)
EXTENDS Integers, Sequences, FiniteSets, TLC

(***************************************************************************)
(* Program constants.                                                      *)
(***************************************************************************)
MIDI_CC_BANK_SELECT_COARSE == 0
MIDI_CC_BANK_SELECT_FINE == 32
MIDI_CC_VOLUME == 7
MIDI_CC_PANNING == 10
MIDI_CC_EMIDI_LOCAL_LOOP_START == 116
MIDI_CC_EMIDI_LOCAL_LOOP_END == 117
MIDI_CC_EMIDI_GLOBAL_LOOP_START == 118
MIDI_CC_EMIDI_GLOBAL_LOOP_END == 119
MIDI_CC_RPG_LOOP_START == 111
MIDI_MAX_POLYPHONY == 24

\* The bank value that marks an SF2 percussion track.
PERCUSSION_BANK == 128
\* The channel index reserved for the percussion track.
PERCUSSION_CHANNEL == 9
\* Number of values of midly's u28 (a delta time), u24 (a tempo), u7 and u4.
U28_RANGE == 268435456
U24_RANGE == 16777216
U8_RANGE == 256
U7_RANGE == 128
U4_RANGE == 16
\* The key that plays at its own pitch when it is a track's base note.
BASE_NOTE_REFERENCE == 69

(***************************************************************************)
(* Bounds of the model.                                                    *)
(***************************************************************************)
\* Most notes in the first pattern of a track of a notes project.
MaxNotes == 2
\* Most loop styles on the command line.
MaxLoopStyles == 2
\* Most melodic SF2 tracks of a capacity project.
MaxMelodic == 16
\* Most percussion SF2 tracks of a capacity project.
MaxPercussion == 2
\* Most simultaneous notes of the chord of a polyphony project.
MaxChord == 26

(***************************************************************************)
(* Lossy integer conversions (Rust `as`, midly's uN::from).                *)
(***************************************************************************)
\* `x as u8` of an isize: two's complement wrap.
AsU8(x) == x % U8_RANGE
\* u7::from(u8): the top bit is masked off.
U7From(x) == x % U7_RANGE
\* u4::from(u8)
U4From(x) == x % U4_RANGE
\* u24::from(u32)
U24From(x) == x % U24_RANGE
\* u28::from(x as u32) of a usize: truncation to 32 bits, then to 28 bits;
\* 2^28 divides 2^32, so the result is x modulo 2^28.
U28FromUsize(x) == x % U28_RANGE

Min(a, b) == IF a <= b THEN a ELSE b
Max(a, b) == IF a >= b THEN a ELSE b

\* Largest n with n * n <= x, for x < (most + 1) * (most + 1).
ISqrt(x, most) == CHOOSE n \in 0..most : n * n <= x /\ x < (n + 1) * (n + 1)

\* remap_clamp_range with the identity transfer function, then `as u8`,
\* on integer inputs: lo + clamp((value - a) / (b - a)) * (hi - lo), truncated.
RemapLinear(value, a, b, lo, hi) ==
  AsU8(lo + ((Min(Max(value, a), b) - a) * (hi - lo)) \div (b - a))

\* remap_clamp_range with the square root transfer function, then `as u8`.
RemapSqrt(value, a, b, lo, hi) ==
  AsU8(lo + ISqrt(((Min(Max(value, a), b) - a) * (hi - lo) * (hi - lo)) \div (b - a),
                  hi - lo))

(***************************************************************************)
(* Event payloads (midly's TrackEventKind).  `data` holds the bytes of a   *)
(* text meta event; p1 and p2 are the message's numbers.                   *)
(***************************************************************************)
Meta(message, p1, data) ==
  [tag |-> "Meta", message |-> message, channel |-> 0, p1 |-> p1, p2 |-> 0, data |-> data]
Midi(channel, message, p1, p2) ==
  [tag |-> "Midi", message |-> message, channel |-> channel, p1 |-> p1, p2 |-> p2,
   data |-> <<>>]

is_note_on(kind) == kind.tag = "Midi" /\ kind.message = "NoteOn"
is_note_off(kind) == kind.tag = "Midi" /\ kind.message = "NoteOff"
is_meta_event(kind) == kind.tag = "Meta"
is_cc_event(kind) == kind.tag = "Midi" /\ kind.message = "Controller"

\* b"loopstart" and b"loopend"
LOOPSTART_BYTES == <<108, 111, 111, 112, 115, 116, 97, 114, 116>>
LOOPEND_BYTES == <<108, 111, 111, 112, 101, 110, 100>>

AbsoluteTrackEvent(ticks, ticks_event_start, kind) ==
  [ticks |-> ticks, ticks_event_start |-> ticks_event_start, kind |-> kind]
TrackEvent(delta, kind) == [delta |-> delta, kind |-> kind]

(***************************************************************************)
(* The project model (src/lmms_model.rs).                                  *)
(***************************************************************************)
LmmsNote(position, length, key, volume) ==
  [position |-> position, length |-> length, key |-> key, volume |-> volume]
LmmsPattern(position, notes) == [position |-> position, notes |-> notes]
\* sf2 is whether instrument.sf2_player is Some; bank and patch are its fields.
LmmsTrack(name, sf2, bank, patch, base_note, use_master_pitch, patterns) ==
  [name |-> name, sf2 |-> sf2, bank |-> bank, patch |-> patch, volume |-> 100,
   panning |-> 0, base_note |-> base_note, use_master_pitch |-> use_master_pitch,
   patterns |-> patterns]
LmmsProject(tracks, master_pitch, loop_start, loop_end) ==
  [tracks |-> tracks, bpm |-> 120, master_pitch |-> master_pitch,
   loop_start |-> loop_start, loop_end |-> loop_end]

\* Indices (source order) of the tracks LmmsProject::sf2_tracks yields.
sf2_tracks(project) ==
  SelectSeq([n \in 1..Len(project.tracks) |-> n], LAMBDA n: project.tracks[n].sf2)

is_instrument_track(track) == track.bank # PERCUSSION_BANK
is_precussion_track(track) == track.bank = PERCUSSION_BANK

\* sf2_tracks().filter(is_instrument_track) and .filter(is_precussion_track)
sf2_instrument_tracks(project) ==
  SelectSeq(sf2_tracks(project), LAMBDA n: is_instrument_track(project.tracks[n]))
sf2_percussion_tracks(project) ==
  SelectSeq(sf2_tracks(project), LAMBDA n: is_precussion_track(project.tracks[n]))

(***************************************************************************)
(* Channel assignment (main.rs, "LMMS track -> MIDI channel assignment").  *)
(***************************************************************************)
\* Mutant of INSTRUMENT_CHANNELS: the percussion channel left in the pool.
InstrumentChannelsWithNine == <<0, 1, 2, 3, 4, 5, 6, 7, 8, 9, 10, 11, 12, 13, 14>>

\* The pool the instrument tracks are zipped with.
INSTRUMENT_CHANNELS == <<0, 1, 2, 3, 4, 5, 6, 7, 8, 10, 11, 12, 13, 14, 15>>
\* The pool the percussion tracks are zipped with.
PERCUSSION_CHANNELS == <<PERCUSSION_CHANNEL>>

\* Iterator::zip of a channel pool (mapped through u4::from) with tracks:
\* pairs <<channel, track index>>, as many as the shorter of the two.
Zip(channels, tracks) ==
  [n \in 1..Min(Len(channels), Len(tracks)) |-> <<U4From(channels[n]), tracks[n]>>]

\* Mutant of SortByChannel: the pairs stay as they were zipped.
SortByChannelKeepsOrder(results) == results

\* results.sort_by_key(|(midi_channel, _)| *midi_channel): a stable sort.  The
\* pair at n goes behind the pairs of a smaller channel and the earlier pairs
\* of its own channel.
SortByChannel(results) ==
  LET place == [n \in 1..Len(results) |->
                 1 + Cardinality({m \in 1..Len(results) :
                                    \/ results[m][1] < results[n][1]
                                    \/ results[m][1] = results[n][1] /\ m < n})]
  IN [p \in 1..Len(results) |-> results[CHOOSE n \in 1..Len(results) : place[n] = p]]

\* The value of lmms_track_midi_channel.
AssignChannels(project) ==
  SortByChannel(Zip(INSTRUMENT_CHANNELS, sf2_instrument_tracks(project))
                \o Zip(PERCUSSION_CHANNELS, sf2_percussion_tracks(project)))

\* Mutant of TooManyInstrumentTracks: a full pool already warns.
TooManyInstrumentTracksInclusive(count) == count >= 15

\* The conditions of the two capacity warnings.
TooManyInstrumentTracks(count) == count > 15
TooManyPercussionTracks(count) == count > 1

(***************************************************************************)
(* Header and channel initialization events.                               *)
(***************************************************************************)
\* An Option<String> argument is <<>> (None) or <<bytes>> (Some).
OptionalMeta(message, option) ==
  IF option = <<>> THEN <<>> ELSE <<TrackEvent(0, Meta(message, 0, option[1]))>>

HeaderEvents(arguments, project) ==
  OptionalMeta("TrackName", arguments.track_name)
  \o OptionalMeta("Copyright", arguments.track_copyright)
  \o OptionalMeta("Text", arguments.track_comment)
  \o <<TrackEvent(0, Meta("Tempo", U24From(60000000 \div project.bpm), <<>>))>>

is_ascii(name) == \A n \in 1..Len(name) : name[n] < 128

\* The events one iteration of the channel initialization loop pushes.
ChannelInitEvents(midi_channel, track) ==
  <<TrackEvent(0, Meta("MidiChannel", midi_channel, <<>>))>>
  \o (IF track.name # <<>>
      THEN <<TrackEvent(0, Meta("InstrumentName", 0, track.name))>>
      ELSE <<>>)
  \o <<TrackEvent(0, Midi(midi_channel, "Controller", MIDI_CC_BANK_SELECT_COARSE,
                          U7From(AsU8(track.bank \div U7_RANGE)))),
       TrackEvent(0, Midi(midi_channel, "Controller", MIDI_CC_BANK_SELECT_FINE,
                          U7From(AsU8(track.bank % U7_RANGE)))),
       TrackEvent(0, Midi(midi_channel, "ProgramChange", U7From(AsU8(track.patch)), 0)),
       TrackEvent(0, Midi(midi_channel, "Controller", MIDI_CC_VOLUME,
                          U7From(RemapSqrt(track.volume, 0, 100, 0, 127)))),
       TrackEvent(0, Midi(midi_channel, "Controller", MIDI_CC_PANNING,
                          U7From(RemapLinear(track.panning, 0 - 100, 100, 0, 127))))>>

(***************************************************************************)
(* Event expansion.                                                        *)
(***************************************************************************)
\* Mutant of NoteKey: the master pitch whatever the track's flag.
NoteKeyMasterPitchAlways(note, track, master_pitch) ==
  note.key + (BASE_NOTE_REFERENCE - track.base_note) + master_pitch

\* note_key before the cast.
NoteKey(note, track, master_pitch) ==
  note.key + (BASE_NOTE_REFERENCE - track.base_note)
  + (IF track.use_master_pitch = 1 THEN master_pitch ELSE 0)

\* Mutant of NoteEvents: the NoteOff carries its own tick as event-start tick.
NoteEventsOffStartsAtEnd(midi_channel, track, pattern, note, master_pitch) ==
  LET ticks_start == pattern.position + note.position
      ticks_end == ticks_start + note.length
      key == U7From(AsU8(NoteKey(note, track, master_pitch)))
      vel == U7From(RemapLinear(note.volume, 0, 200, 0, 127))
  IN <<AbsoluteTrackEvent(ticks_start, ticks_start, Midi(midi_channel, "NoteOn", key, vel)),
       AbsoluteTrackEvent(ticks_end, ticks_end, Midi(midi_channel, "NoteOff", key, vel))>>

\* The NoteOn and NoteOff events pushed for one note.
NoteEvents(midi_channel, track, pattern, note, master_pitch) ==
  LET ticks_start == pattern.position + note.position
      ticks_end == ticks_start + note.length
      key == U7From(AsU8(NoteKey(note, track, master_pitch)))
      vel == U7From(RemapLinear(note.volume, 0, 200, 0, 127))
  IN <<AbsoluteTrackEvent(ticks_start, ticks_start, Midi(midi_channel, "NoteOn", key, vel)),
       AbsoluteTrackEvent(ticks_end, ticks_start, Midi(midi_channel, "NoteOff", key, vel))>>

\* The concatenation of seqs[lo..hi].
RECURSIVE FlattenRange(_, _, _)
FlattenRange(seqs, lo, hi) ==
  IF lo > hi THEN <<>>
  ELSE IF lo = hi THEN seqs[lo]
  ELSE FlattenRange(seqs, lo, (lo + hi) \div 2) \o FlattenRange(seqs, (lo + hi) \div 2 + 1, hi)

Flatten(seqs) == FlattenRange(seqs, 1, Len(seqs))

\* The events pushed for one (channel, track) pair: patterns in order, notes in order.
TrackNoteEvents(midi_channel, track, master_pitch) ==
  Flatten([p \in 1..Len(track.patterns) |->
    Flatten([n \in 1..Len(track.patterns[p].notes) |->
      NoteEvents(midi_channel, track, track.patterns[p],
                 track.patterns[p].notes[n], master_pitch)])])

LoopController(ticks, controller) ==
  AbsoluteTrackEvent(ticks, ticks, Midi(U4From(0), "Controller", U7From(controller), U7From(0)))

\* Mutant of LoopStyleEvents: RpgMaker marks the loop end as well.
LoopStyleEventsRpgPair(loop_style, loop_start, loop_end) ==
  CASE loop_style = "RpgMaker" ->
         <<LoopController(loop_start, MIDI_CC_RPG_LOOP_START),
           LoopController(loop_end, MIDI_CC_RPG_LOOP_START)>>
    [] loop_style = "EmidiLocal" ->
         <<LoopController(loop_start, MIDI_CC_EMIDI_LOCAL_LOOP_START),
           LoopController(loop_end, MIDI_CC_EMIDI_LOCAL_LOOP_END)>>
    [] loop_style = "EmidiGlobal" ->
         <<LoopController(loop_start, MIDI_CC_EMIDI_GLOBAL_LOOP_START),
           LoopController(loop_end, MIDI_CC_EMIDI_GLOBAL_LOOP_END)>>
    [] loop_style = "FinalFantasy" ->
         <<AbsoluteTrackEvent(loop_start, loop_start, Meta("Marker", 0, LOOPSTART_BYTES)),
           AbsoluteTrackEvent(loop_end, loop_end, Meta("Marker", 0, LOOPEND_BYTES))>>

\* The events pushed for one requested loop style.
LoopStyleEvents(loop_style, loop_start, loop_end) ==
  CASE loop_style = "RpgMaker" ->
         <<LoopController(loop_start, MIDI_CC_RPG_LOOP_START)>>
    [] loop_style = "EmidiLocal" ->
         <<LoopController(loop_start, MIDI_CC_EMIDI_LOCAL_LOOP_START),
           LoopController(loop_end, MIDI_CC_EMIDI_LOCAL_LOOP_END)>>
    [] loop_style = "EmidiGlobal" ->
         <<LoopController(loop_start, MIDI_CC_EMIDI_GLOBAL_LOOP_START),
           LoopController(loop_end, MIDI_CC_EMIDI_GLOBAL_LOOP_END)>>
    [] loop_style = "FinalFantasy" ->
         <<AbsoluteTrackEvent(loop_start, loop_start, Meta("Marker", 0, LOOPSTART_BYTES)),
           AbsoluteTrackEvent(loop_end, loop_end, Meta("Marker", 0, LOOPEND_BYTES))>>

(***************************************************************************)
(* The scheduler's sort.                                                   *)
(***************************************************************************)
\* A bool as the sort compares it: false < true.
BoolKey(b) == IF b THEN 1 ELSE 0

\* Mutant of SortKey: the event-start tick compared before the tick.
SortKeyStartFirst(event) ==
  <<event.ticks_event_start, event.ticks,
    BoolKey(~is_meta_event(event.kind)), BoolKey(~is_cc_event(event.kind)),
    BoolKey(~is_note_on(event.kind)), BoolKey(~is_note_off(event.kind))>>

\* Mutant of SortKey: the kind tests without their negation.
SortKeyNoNegation(event) ==
  <<event.ticks, event.ticks_event_start,
    BoolKey(is_meta_event(event.kind)), BoolKey(is_cc_event(event.kind)),
    BoolKey(is_note_on(event.kind)), BoolKey(is_note_off(event.kind))>>

\* Mutant of SortKey: the kind of the event left out of the key.
SortKeyTicksOnly(event) == <<event.ticks, event.ticks_event_start>>

\* Mutant of SortKey: note-off tested before note-on.
SortKeyOffBeforeOn(event) ==
  <<event.ticks, event.ticks_event_start,
    BoolKey(~is_meta_event(event.kind)), BoolKey(~is_cc_event(event.kind)),
    BoolKey(~is_note_off(event.kind)), BoolKey(~is_note_on(event.kind))>>

\* The key midi_track_events.sort_by_key extracts.
SortKey(event) ==
  <<event.ticks, event.ticks_event_start,
    BoolKey(~is_meta_event(event.kind)), BoolKey(~is_cc_event(event.kind)),
    BoolKey(~is_note_on(event.kind)), BoolKey(~is_note_off(event.kind))>>

\* Ord of tuples of one length: lexicographic.
LexLess(a, b) ==
  \E k \in 1..Len(a) : a[k] < b[k] /\ \A j \in 1..(k - 1) : a[j] = b[j]

\* Mutant of SortByKey: events of an equal key come out in reverse order.
SortByKeyTiesReversed(events) ==
  LET keys == [n \in 1..Len(events) |-> SortKey(events[n])] \o <<>>
      place == [n \in 1..Len(events) |->
                 1 + Cardinality({m \in 1..Len(events) :
                                    \/ LexLess(keys[m], keys[n])
                                    \/ ~LexLess(keys[n], keys[m]) /\ m > n})] \o <<>>
  IN [p \in 1..Len(events) |-> events[CHOOSE n \in 1..Len(events) : place[n] = p]]

\* slice::sort_by_key: a stable sort.  The event at n goes behind the events
\* of a smaller key and the earlier events of an equal key.  (Concatenating
\* <<>> turns a function into a tuple, so that it is evaluated once.)
SortByKey(events) ==
  LET keys == [n \in 1..Len(events) |-> SortKey(events[n])] \o <<>>
      place == [n \in 1..Len(events) |->
                 1 + Cardinality({m \in 1..Len(events) :
                                    \/ LexLess(keys[m], keys[n])
                                    \/ ~LexLess(keys[n], keys[m]) /\ m < n})] \o <<>>
  IN [p \in 1..Len(events) |-> events[CHOOSE n \in 1..Len(events) : place[n] = p]]

(***************************************************************************)
(* Validator conditions and the delta computation.                         *)
(***************************************************************************)
\* Mutant of PolyphonyRearm: re-armed only below the ceiling.
PolyphonyRearmStrict(polyphony, warned) == polyphony < MIDI_MAX_POLYPHONY /\ warned

\* Mutant of NoteOverlap: three sounding notes needed.
NoteOverlapStrict(note_count) == note_count > 2

\* The polyphony check warns.
ExcessivePolyphony(polyphony, warned) == polyphony > MIDI_MAX_POLYPHONY /\ ~warned
\* The polyphony check re-arms its warning.
PolyphonyRearm(polyphony, warned) == polyphony <= MIDI_MAX_POLYPHONY /\ warned
\* The overlap check warns.
NoteOverlap(note_count) == note_count >= 2

\* delta_time of the event at event_index (1-based here).
DeltaTime(events, event_index) ==
  IF event_index = 1 THEN events[1].ticks
  ELSE events[event_index].ticks - events[event_index - 1].ticks

(***************************************************************************)
(* State of one run of main.                                               *)
(***************************************************************************)
VARIABLES
  pc,                       \* the block of main that runs next
  lmms_project,             \* the loaded project
  args,                     \* the parsed command line
  stderr,                   \* the warnings printed so far
  lmms_track_midi_channel,  \* pairs <<channel, index of the track>>
  midi_track,               \* the output track
  midi_track_events,        \* the absolute events
  cursor,                   \* position of the loop that runs
  current_polyphony,
  already_warned,
  current_note_counts       \* a map from <<channel, key>> to a count

vars ==
  <<pc, lmms_project, args, stderr, lmms_track_midi_channel, midi_track,
    midi_track_events, cursor, current_polyphony, already_warned, current_note_counts>>

Warning(message, at) == [message |-> message, at |-> at]

\* Every sequence over S of length at most n.
SeqUpTo(S, n) == UNION {[1..m -> S] : m \in 0..n}

(***************************************************************************)
(* Projects and command lines of the model.                                *)
(***************************************************************************)
LOOP_STYLES == {"RpgMaker", "EmidiLocal", "EmidiGlobal", "FinalFantasy"}

NoArguments ==
  [loop_style |-> <<>>, track_name |-> <<>>, track_copyright |-> <<>>,
   track_comment |-> <<>>]

\* A melodic SF2 track named by one byte, playing keys at their own pitch.
MelodicTrack(byte, patterns) == LmmsTrack(<<byte>>, TRUE, 0, 1, 69, 0, patterns)
PercussionTrack(byte, patterns) == LmmsTrack(<<byte>>, TRUE, 128, 0, 69, 0, patterns)
\* A track of another instrument (no sf2player element).
OtherTrack(patterns) == LmmsTrack(<<>>, FALSE, 0, 0, 69, 0, patterns)

\* Notes projects: one melodic track with two patterns that overlap in time.
NoteChoices ==
  {LmmsNote(position, length, key, 100) :
     position \in 0..1, length \in 0..2, key \in {60, 61}}

NotesProjects ==
  {LmmsProject(<<MelodicTrack(76, <<LmmsPattern(0, first), LmmsPattern(1, second)>>)>>,
               0, 0, 0) :
     first \in SeqUpTo(NoteChoices, MaxNotes),
     second \in {<<>>, <<LmmsNote(0, 1, 188, 100)>>}}

NotesInput ==
  /\ lmms_project \in NotesProjects
  /\ args = NoArguments

\* Loop projects: every sequence of loop styles over a few notes; the loop may
\* end beyond the largest delta time.
LoopNotes ==
  {<<>>, <<LmmsNote(0, 1, 60, 100)>>,
   <<LmmsNote(0, 0, 60, 200), LmmsNote(0, 1, 60, 100), LmmsNote(1, 1, 60, 0)>>}

LoopProjects ==
  {LmmsProject(<<MelodicTrack(76, <<LmmsPattern(0, notes)>>)>>, 0, loop_start, loop_end) :
     notes \in LoopNotes, loop_start \in {0, 1}, loop_end \in {1, U28_RANGE}}

LoopsInput ==
  /\ lmms_project \in LoopProjects
  /\ \E styles \in SeqUpTo(LOOP_STYLES, MaxLoopStyles), name \in {<<>>, <<<<83>>>>} :
       args = [loop_style |-> styles, track_name |-> name, track_copyright |-> <<>>,
               track_comment |-> name]

\* Capacity projects: many single-note tracks, the percussion tracks before,
\* inside or after the melodic ones; the note of track n has key 40 + n.
CapacityTrack(n, percussion) ==
  LET patterns == <<LmmsPattern(0, <<LmmsNote(0, 1, 40 + n, 100)>>)>>
  IN IF percussion THEN PercussionTrack(200 + n, patterns)
     ELSE MelodicTrack(64 + n, patterns)

CapacityTracks(melodic, percussion, first) ==
  [n \in 1..(melodic + percussion) |->
     CapacityTrack(n, n > Min(first, melodic) /\ n <= Min(first, melodic) + percussion)]

CapacityProjects ==
  {LmmsProject(<<OtherTrack(<<LmmsPattern(0, <<LmmsNote(0, 1, 30, 100)>>)>>)>>
               \o CapacityTracks(melodic, percussion, first), 0, 0, 0) :
     melodic \in 0..MaxMelodic, percussion \in 0..MaxPercussion, first \in {0, 1, MaxMelodic}}

CapacityInput ==
  /\ lmms_project \in CapacityProjects
  /\ args = NoArguments

\* Polyphony projects: a chord of long notes on one track, and a few short
\* notes on a second track.
ChordNotes(size) == [n \in 1..size |-> LmmsNote(0, 3, n, 100)]

ShortNotes == {LmmsNote(0, 1, 100, 100), LmmsNote(2, 1, 100, 100), LmmsNote(0, 3, 101, 100)}

PolyphonyProjects ==
  {LmmsProject(<<MelodicTrack(67, <<LmmsPattern(0, ChordNotes(size))>>),
                 MelodicTrack(83, <<LmmsPattern(0, short)>>)>>, 0, 0, 0) :
     size \in (MIDI_MAX_POLYPHONY - 2)..MaxChord, short \in SeqUpTo(ShortNotes, MaxNotes)}

PolyphonyInput ==
  /\ lmms_project \in PolyphonyProjects
  /\ args = NoArguments

\* Pitch projects: a melodic track of any base note and master pitch flag, in
\* front of a percussion track that follows the master pitch; keys that stay
\* inside and that leave the pitch range on either side.
PitchNotes ==
  {[n \in 1..Len(keys) |-> LmmsNote(n - 1, 1, keys[n], 100)] :
     keys \in SeqUpTo({0, 60, 127, 200}, MaxNotes)}

PitchProjects ==
  {LmmsProject(<<LmmsTrack(<<76>>, TRUE, 0, 1, base_note, use_master_pitch,
                           <<LmmsPattern(0, notes)>>),
                 LmmsTrack(<<80>>, TRUE, 128, 0, 69, 1,
                           <<LmmsPattern(0, <<LmmsNote(0, 1, 60, 100)>>)>>)>>,
               master_pitch, 0, 0) :
     base_note \in {57, 69, 200}, use_master_pitch \in {0, 1, 2},
     master_pitch \in {-70, 0, 2}, notes \in PitchNotes}

PitchInput ==
  /\ lmms_project \in PitchProjects
  /\ args = NoArguments

\* The state main starts in once the project is loaded.
InitRun ==
  /\ pc = "sanity_check"
  /\ stderr = <<>>
  /\ lmms_track_midi_channel = <<>>
  /\ midi_track = <<>>
  /\ midi_track_events = <<>>
  /\ cursor = 1
  /\ current_polyphony = 0
  /\ already_warned = FALSE
  /\ current_note_counts = <<>>

\* Notes and loop projects; capacity projects; polyphony projects.
Init == (NotesInput \/ LoopsInput) /\ InitRun
InitCapacity == CapacityInput /\ InitRun
InitPolyphony == PolyphonyInput /\ InitRun
InitPitch == PitchInput /\ InitRun

(***************************************************************************)
(* The blocks of main.                                                     *)
(***************************************************************************)
\* Sanity check for LMMS instrument/percussion track counts.
SanityCheck ==
  /\ pc = "sanity_check"
  /\ LET instrument_count == Len(sf2_instrument_tracks(lmms_project))
         percussion_count == Len(sf2_percussion_tracks(lmms_project))
     IN stderr' = stderr
          \o (IF TooManyInstrumentTracks(instrument_count)
              THEN <<Warning("more SF2 instrument tracks than MIDI channels", instrument_count)>>
              ELSE <<>>)
          \o (IF TooManyPercussionTracks(percussion_count)
              THEN <<Warning("more than one SF2 percussion track", percussion_count)>>
              ELSE <<>>)
  /\ pc' = "assign"
  /\ UNCHANGED <<lmms_project, args, lmms_track_midi_channel, midi_track,
                 midi_track_events, cursor, current_polyphony, already_warned,
                 current_note_counts>>

\* LMMS track -> MIDI channel assignment.
Assign ==
  /\ pc = "assign"
  /\ lmms_track_midi_channel' = AssignChannels(lmms_project)
  /\ pc' = "header"
  /\ UNCHANGED <<lmms_project, args, stderr, midi_track, midi_track_events, cursor,
                 current_polyphony, already_warned, current_note_counts>>

\* The track name, copyright, comment and tempo meta events.
Header ==
  /\ pc = "header"
  /\ midi_track' = midi_track \o HeaderEvents(args, lmms_project)
  /\ pc' = "channel_init"
  /\ cursor' = 1
  /\ UNCHANGED <<lmms_project, args, stderr, lmms_track_midi_channel, midi_track_events,
                 current_polyphony, already_warned, current_note_counts>>

\* One iteration of the MIDI channel initialization loop, or its end.
ChannelInit ==
  /\ pc = "channel_init"
  /\ IF cursor > Len(lmms_track_midi_channel)
     THEN /\ pc' = "expand"
          /\ cursor' = 1
          /\ UNCHANGED <<midi_track, stderr>>
     ELSE LET midi_channel == lmms_track_midi_channel[cursor][1]
              lmms_track == lmms_project.tracks[lmms_track_midi_channel[cursor][2]]
          IN /\ midi_track' = midi_track \o ChannelInitEvents(midi_channel, lmms_track)
             /\ stderr' = IF lmms_track.name # <<>> /\ ~is_ascii(lmms_track.name)
                          THEN Append(stderr, Warning("non-ASCII LMMS track name", midi_channel))
                          ELSE stderr
             /\ cursor' = cursor + 1
             /\ pc' = pc
  /\ UNCHANGED <<lmms_project, args, lmms_track_midi_channel, midi_track_events,
                 current_polyphony, already_warned, current_note_counts>>

\* One iteration of the note expansion loop over the assigned tracks, or its end.
Expand ==
  /\ pc = "expand"
  /\ IF cursor > Len(lmms_track_midi_channel)
     THEN /\ pc' = "loop_styles"
          /\ cursor' = 1
          /\ UNCHANGED midi_track_events
     ELSE LET midi_channel == lmms_track_midi_channel[cursor][1]
              lmms_track == lmms_project.tracks[lmms_track_midi_channel[cursor][2]]
          IN /\ midi_track_events' = midi_track_events
                   \o TrackNoteEvents(midi_channel, lmms_track, lmms_project.master_pitch)
             /\ cursor' = cursor + 1
             /\ pc' = pc
  /\ UNCHANGED <<lmms_project, args, stderr, lmms_track_midi_channel, midi_track,
                 current_polyphony, already_warned, current_note_counts>>

\* One iteration of the loop over the requested loop styles, or its end.
LoopStyles ==
  /\ pc = "loop_styles"
  /\ IF cursor > Len(args.loop_style)
     THEN /\ pc' = "sort"
          /\ cursor' = 1
          /\ UNCHANGED midi_track_events
     ELSE /\ midi_track_events' = midi_track_events
                \o LoopStyleEvents(args.loop_style[cursor], lmms_project.loop_start,
                                   lmms_project.loop_end)
          /\ cursor' = cursor + 1
          /\ pc' = pc
  /\ UNCHANGED <<lmms_project, args, stderr, lmms_track_midi_channel, midi_track,
                 current_polyphony, already_warned, current_note_counts>>

\* midi_track_events.sort_by_key(..)
Sort ==
  /\ pc = "sort"
  /\ midi_track_events' = SortByKey(midi_track_events)
  /\ pc' = "polyphony"
  /\ cursor' = 1
  /\ current_polyphony' = 0
  /\ already_warned' = FALSE
  /\ UNCHANGED <<lmms_project, args, stderr, lmms_track_midi_channel, midi_track,
                 current_note_counts>>

\* One iteration of the polyphony check, or its end.  A failed assert panics.
PolyphonyCheck ==
  /\ pc = "polyphony"
  /\ IF cursor > Len(midi_track_events)
     THEN /\ pc' = "overlap"
          /\ cursor' = 1
          /\ UNCHANGED <<stderr, current_polyphony, already_warned>>
     ELSE LET event == midi_track_events[cursor]
          IN IF is_note_on(event.kind)
             THEN /\ current_polyphony' = current_polyphony + 1
                  /\ IF ExcessivePolyphony(current_polyphony + 1, already_warned)
                     THEN /\ stderr' = Append(stderr, Warning("excessive polyphony", event.ticks))
                          /\ already_warned' = TRUE
                     ELSE UNCHANGED <<stderr, already_warned>>
                  /\ cursor' = cursor + 1
                  /\ pc' = pc
             ELSE IF is_note_off(event.kind)
             THEN IF current_polyphony > 0
                  THEN /\ current_polyphony' = current_polyphony - 1
                       /\ already_warned' =
                            IF PolyphonyRearm(current_polyphony - 1, already_warned)
                            THEN FALSE ELSE already_warned
                       /\ cursor' = cursor + 1
                       /\ pc' = pc
                       /\ UNCHANGED stderr
                  ELSE /\ pc' = "panic_polyphony"
                       /\ UNCHANGED <<stderr, current_polyphony, already_warned, cursor>>
             ELSE /\ cursor' = cursor + 1
                  /\ pc' = pc
                  /\ UNCHANGED <<stderr, current_polyphony, already_warned>>
  /\ UNCHANGED <<lmms_project, args, lmms_track_midi_channel, midi_track,
                 midi_track_events, current_note_counts>>

\* One iteration of the note overlap check, or its end.  A failed expect or
\* assert panics.
OverlapCheck ==
  /\ pc = "overlap"
  /\ IF cursor > Len(midi_track_events)
     THEN /\ pc' = "delta"
          /\ cursor' = 1
          /\ UNCHANGED <<stderr, current_note_counts>>
     ELSE LET event == midi_track_events[cursor]
              note == <<event.kind.channel, event.kind.p1>>
              tracked == \E n \in 1..Len(current_note_counts) : current_note_counts[n][1] = note
              slot == CHOOSE n \in 1..Len(current_note_counts) : current_note_counts[n][1] = note
          IN IF is_note_on(event.kind)
             THEN LET note_count == (IF tracked THEN current_note_counts[slot][2] ELSE 0) + 1
                  IN /\ current_note_counts' =
                          IF tracked
                          THEN [current_note_counts EXCEPT ![slot] = <<note, note_count>>]
                          ELSE Append(current_note_counts, <<note, note_count>>)
                     /\ stderr' = IF NoteOverlap(note_count)
                                  THEN Append(stderr, Warning("note overlap", event.ticks))
                                  ELSE stderr
                     /\ cursor' = cursor + 1
                     /\ pc' = pc
             ELSE IF is_note_off(event.kind)
             THEN IF tracked /\ current_note_counts[slot][2] > 0
                  THEN /\ current_note_counts' =
                            IF current_note_counts[slot][2] - 1 = 0
                            THEN SelectSeq(current_note_counts, LAMBDA entry : entry[1] # note)
                            ELSE [current_note_counts EXCEPT
                                    ![slot] = <<note, current_note_counts[slot][2] - 1>>]
                       /\ cursor' = cursor + 1
                       /\ pc' = pc
                       /\ UNCHANGED stderr
                  ELSE /\ pc' = "panic_note_count"
                       /\ UNCHANGED <<stderr, current_note_counts, cursor>>
             ELSE /\ cursor' = cursor + 1
                  /\ pc' = pc
                  /\ UNCHANGED <<stderr, current_note_counts>>
  /\ UNCHANGED <<lmms_project, args, lmms_track_midi_channel, midi_track,
                 midi_track_events, current_polyphony, already_warned>>

\* One iteration of the delta computation, or its end.  A failed assert panics.
Delta ==
  /\ pc = "delta"
  /\ IF cursor > Len(midi_track_events)
     THEN /\ pc' = "end_of_track"
          /\ UNCHANGED <<midi_track, cursor>>
     ELSE IF cursor > 1 /\ ~(midi_track_events[cursor - 1].ticks <= midi_track_events[cursor].ticks)
     THEN /\ pc' = "panic_tick_order"
          /\ UNCHANGED <<midi_track, cursor>>
     ELSE /\ midi_track' = Append(midi_track,
               TrackEvent(U28FromUsize(DeltaTime(midi_track_events, cursor)),
                          midi_track_events[cursor].kind))
          /\ cursor' = cursor + 1
          /\ pc' = pc
  /\ UNCHANGED <<lmms_project, args, stderr, lmms_track_midi_channel, midi_track_events,
                 current_polyphony, already_warned, current_note_counts>>

\* The end of track event; the document is handed to the writer.
EndOfTrack ==
  /\ pc = "end_of_track"
  /\ midi_track' = Append(midi_track, TrackEvent(0, Meta("EndOfTrack", 0, <<>>)))
  /\ pc' = "done"
  /\ UNCHANGED <<lmms_project, args, stderr, lmms_track_midi_channel, midi_track_events,
                 cursor, current_polyphony, already_warned, current_note_counts>>

Next ==
  \/ SanityCheck
  \/ Assign
  \/ Header
  \/ ChannelInit
  \/ Expand
  \/ LoopStyles
  \/ Sort
  \/ PolyphonyCheck
  \/ OverlapCheck
  \/ Delta
  \/ EndOfTrack

Spec == Init /\ [][Next]_vars
SpecCapacity == InitCapacity /\ [][Next]_vars
SpecPolyphony == InitPolyphony /\ [][Next]_vars
SpecPitch == InitPitch /\ [][Next]_vars

(***************************************************************************)
(* Properties.                                                             *)
(***************************************************************************)
PANICS == {"panic_polyphony", "panic_note_count", "panic_tick_order"}

\* midi_track_events has been sorted.
AfterSort == pc \in {"polyphony", "overlap", "delta", "end_of_track", "done"} \cup PANICS

\* The events in the order they were pushed, before the sort.
PushedEvents ==
  Flatten([n \in 1..Len(lmms_track_midi_channel) |->
            TrackNoteEvents(lmms_track_midi_channel[n][1],
                            lmms_project.tracks[lmms_track_midi_channel[n][2]],
                            lmms_project.master_pitch)])
  \o Flatten([n \in 1..Len(args.loop_style) |->
               LoopStyleEvents(args.loop_style[n], lmms_project.loop_start,
                               lmms_project.loop_end)])

\* The classes the scheduler's order tells apart at one tick and event-start
\* tick: meta, controller change, note-on, note-off, anything else.
ClassRank(kind) ==
  IF kind.tag = "Meta" THEN 0
  ELSE IF kind.message = "Controller" THEN 1
  ELSE IF kind.message = "NoteOn" THEN 2
  ELSE IF kind.message = "NoteOff" THEN 3
  ELSE 4

\* a may stand before b in the scheduler's total order.
PlacedInOrder(a, b) ==
  \/ a.ticks < b.ticks
  \/ /\ a.ticks = b.ticks
     /\ \/ a.ticks_event_start < b.ticks_event_start
        \/ /\ a.ticks_event_start = b.ticks_event_start
           /\ ClassRank(a.kind) <= ClassRank(b.kind)

\* C1: the sorted event sequence is non-decreasing in absolute tick, and the
\* assertion of the delta computation never fails.
C1_SortedByTick ==
  /\ pc # "panic_tick_order"
  /\ AfterSort =>
       \A n \in 1..(Len(midi_track_events) - 1) :
         midi_track_events[n].ticks <= midi_track_events[n + 1].ticks

\* A finished run whose sort moved events, over notes and loop events at
\* several ticks.
C1_Witness ==
  /\ pc = "done"
  /\ midi_track_events # PushedEvents
  /\ \E n \in 1..(Len(midi_track_events) - 1) :
       midi_track_events[n].ticks < midi_track_events[n + 1].ticks
  /\ \E n, m \in 1..Len(midi_track_events) :
       /\ is_note_off(midi_track_events[n].kind)
       /\ ~is_note_on(midi_track_events[m].kind) /\ ~is_note_off(midi_track_events[m].kind)

\* C2: any event placed before another in the sorted sequence of note and
\* loop events precedes it in the lexicographic order: tick, event-start tick,
\* meta before non-meta, controller change before notes, note-on before note-off.
C2_LexicographicOrder ==
  AfterSort =>
    \A m, n \in 1..Len(midi_track_events) :
      m < n => PlacedInOrder(midi_track_events[m], midi_track_events[n])

\* A finished run with a marker, a controller change, a note-on and a note-off
\* at one tick and event-start tick, and a note-off ahead of a note-on of the
\* same tick because its note started earlier.
C2_Witness ==
  /\ pc = "done"
  /\ \E k, l, m, n \in 1..Len(midi_track_events) :
       /\ k < l /\ l < m /\ m < n
       /\ SortKey(midi_track_events[k])[1] = SortKey(midi_track_events[n])[1]
       /\ SortKey(midi_track_events[k])[2] = SortKey(midi_track_events[n])[2]
       /\ is_meta_event(midi_track_events[k].kind)
       /\ is_cc_event(midi_track_events[l].kind)
       /\ is_note_on(midi_track_events[m].kind)
       /\ is_note_off(midi_track_events[n].kind)
  /\ \E m, n \in 1..Len(midi_track_events) :
       /\ m < n
       /\ midi_track_events[m].ticks = midi_track_events[n].ticks
       /\ midi_track_events[m].ticks_event_start < midi_track_events[n].ticks_event_start
       /\ is_note_off(midi_track_events[m].kind)
       /\ is_note_on(midi_track_events[n].kind)

\* The events pushed before the sorted ones: the header and the setup blocks.
SetupLength == Len(midi_track) - 1 - Len(midi_track_events)

\* The emitted events but the end of track, each with its absolute tick and
\* event-start tick: 0 for a header or setup event.
EmittedAbsolute ==
  [n \in 1..(Len(midi_track) - 1) |->
     IF n <= SetupLength
     THEN AbsoluteTrackEvent(0, 0, midi_track[n].kind)
     ELSE AbsoluteTrackEvent(midi_track_events[n - SetupLength].ticks,
                             midi_track_events[n - SetupLength].ticks_event_start,
                             midi_track[n].kind)]

\* The order as stated for meta, controller change, note-on and note-off
\* events; it says nothing about the place of any other kind at one tick.
PlacedInStatedOrder(a, b) ==
  \/ a.ticks < b.ticks
  \/ /\ a.ticks = b.ticks
     /\ \/ a.ticks_event_start < b.ticks_event_start
        \/ /\ a.ticks_event_start = b.ticks_event_start
           /\ \/ ClassRank(a.kind) = 4
              \/ ClassRank(b.kind) = 4
              \/ ClassRank(a.kind) <= ClassRank(b.kind)

\* C3 as stated: the complete emitted sequence, header and setup events taken
\* at tick 0, is sorted by the scheduler's total order; in particular no
\* controller change precedes a meta event at tick 0.
C3_CompleteSequenceSorted ==
  pc = "done" =>
    \A m, n \in 1..(Len(midi_track) - 1) :
      m < n => PlacedInStatedOrder(EmittedAbsolute[m], EmittedAbsolute[n])

\* C3 as amended: the emitted sequence is the header meta events, then the
\* setup block of each assigned channel in channel order, all with delta 0 and
\* in the order they are pushed, then the note and loop events, and only these
\* are sorted by the scheduler's total order.
C3_SortedAfterSetup ==
  pc = "done" =>
    /\ SubSeq(midi_track, 1, SetupLength) =
         HeaderEvents(args, lmms_project)
         \o Flatten([n \in 1..Len(lmms_track_midi_channel) |->
                      ChannelInitEvents(lmms_track_midi_channel[n][1],
                                        lmms_project.tracks[lmms_track_midi_channel[n][2]])])
    /\ \A n \in 1..SetupLength : midi_track[n].delta = 0
    /\ \A n \in 1..Len(midi_track_events) :
         midi_track[SetupLength + n].kind = midi_track_events[n].kind
    /\ \A m, n \in (SetupLength + 1)..(Len(midi_track) - 1) :
         m < n => PlacedInOrder(EmittedAbsolute[m], EmittedAbsolute[n])

\* A finished run that emits a loop marker of tick 0 after the controller
\* changes of a setup block, and sorted a note-on behind a marker and a
\* controller change of its tick.
C3_Witness ==
  /\ pc = "done"
  /\ \E m \in 1..SetupLength : is_cc_event(midi_track[m].kind)
  /\ \E k, l, m \in (SetupLength + 1)..(Len(midi_track) - 1) :
       /\ k < l /\ l < m
       /\ EmittedAbsolute[k].ticks = 0 /\ EmittedAbsolute[m].ticks = 0
       /\ is_meta_event(midi_track[k].kind)
       /\ is_cc_event(midi_track[l].kind)
       /\ is_note_on(midi_track[m].kind)
  /\ midi_track_events # PushedEvents

\* The sum of the emitted delta times lo..hi.
RECURSIVE DeltaSum(_, _)
DeltaSum(lo, hi) ==
  IF lo > hi THEN 0
  ELSE IF lo = hi THEN midi_track[lo].delta
  ELSE DeltaSum(lo, (lo + hi) \div 2) + DeltaSum((lo + hi) \div 2 + 1, hi)

\* The sum of the first n emitted delta times.
CumulativeDelta(n) == DeltaSum(1, n)

\* C4: the cumulative sum of the emitted delta times up to an event equals
\* the event's absolute tick (0 for a header or setup event); the first sorted
\* event's delta is its tick, every later one its tick minus the preceding tick.
C4_DeltaRoundTrip ==
  pc = "done" =>
    /\ \A n \in 1..(Len(midi_track) - 1) : CumulativeDelta(n) = EmittedAbsolute[n].ticks
    /\ \A n \in 1..Len(midi_track_events) :
         midi_track[SetupLength + n].delta =
           midi_track_events[n].ticks - (IF n = 1 THEN 0 ELSE midi_track_events[n - 1].ticks)

\* lmms_track_midi_channel has been computed.
Assigned == pc \notin {"sanity_check", "assign"}

IsMelodic(n) == lmms_project.tracks[n].sf2 /\ lmms_project.tracks[n].bank # 128
IsPercussion(n) == lmms_project.tracks[n].sf2 /\ lmms_project.tracks[n].bank = 128

\* How many melodic (percussion) SF2 tracks stand before track n in the source.
MelodicRank(n) == Cardinality({m \in 1..(n - 1) : IsMelodic(m)})
PercussionRank(n) == Cardinality({m \in 1..(n - 1) : IsPercussion(m)})

\* The fixed pool 0,1,2,3,4,5,6,7,8,10,11,12,13,14,15 by rank 0..14.
PoolChannel(rank) == IF rank < 9 THEN rank ELSE rank + 1

\* The channels track n is assigned.
ChannelsOf(n) ==
  {lmms_track_midi_channel[k][1] :
     k \in {j \in 1..Len(lmms_track_midi_channel) : lmms_track_midi_channel[j][2] = n}}

\* C5: the i-th melodic SF2 track, i < 15, gets the i-th index of the pool, the
\* first percussion track gets 9, no channel has two tracks, no track two
\* channels, no melodic track is on 9 and no percussion track on a pool index.
C5_ChannelAssignment ==
  Assigned =>
    /\ \A n \in 1..Len(lmms_project.tracks) :
         /\ IsMelodic(n) /\ MelodicRank(n) < 15 => ChannelsOf(n) = {PoolChannel(MelodicRank(n))}
         /\ IsPercussion(n) /\ PercussionRank(n) = 0 => ChannelsOf(n) = {9}
         /\ IsMelodic(n) => 9 \notin ChannelsOf(n)
         /\ IsPercussion(n) => ChannelsOf(n) \subseteq {9}
         /\ Cardinality(ChannelsOf(n)) <= 1
    /\ \A j, k \in 1..Len(lmms_track_midi_channel) :
         j # k => /\ lmms_track_midi_channel[j][1] # lmms_track_midi_channel[k][1]
                  /\ lmms_track_midi_channel[j][2] # lmms_track_midi_channel[k][2]

\* A finished run with all sixteen channels assigned, a percussion track
\* standing before a melodic one in the source, and a melodic track past the
\* ninth on a channel above 9.
C5_Witness ==
  /\ pc = "done"
  /\ Len(lmms_track_midi_channel) = 16
  /\ \E m, n \in 1..Len(lmms_project.tracks) :
       /\ m < n /\ IsPercussion(m) /\ IsMelodic(n)
       /\ ChannelsOf(m) = {9}
       /\ MelodicRank(n) = 14 /\ ChannelsOf(n) = {15}

MelodicCount == Cardinality({n \in 1..Len(lmms_project.tracks) : IsMelodic(n)})
PercussionCount == Cardinality({n \in 1..Len(lmms_project.tracks) : IsPercussion(n)})

\* The tracks the capacity policy keeps.
KeptTracks ==
  {n \in 1..Len(lmms_project.tracks) :
     \/ IsMelodic(n) /\ MelodicRank(n) < 15
     \/ IsPercussion(n) /\ PercussionRank(n) = 0}

\* The notes of track n: pairs <<pattern, note>> of indices.
NoteIndices(n) ==
  UNION {{<<p, k>> : k \in 1..Len(lmms_project.tracks[n].patterns[p].notes)} :
           p \in 1..Len(lmms_project.tracks[n].patterns)}

\* The output pitches of the notes of track n.
PitchesOf(n) ==
  {U7From(AsU8(NoteKey(lmms_project.tracks[n].patterns[note[1]].notes[note[2]],
                       lmms_project.tracks[n], lmms_project.master_pitch))) :
     note \in NoteIndices(n)}

WarningCount(message) == Cardinality({n \in 1..Len(stderr) : stderr[n].message = message})

EmittedCount(message) ==
  Cardinality({n \in 1..Len(midi_track) : midi_track[n].kind.message = message})

\* min(M, 15) melodic and min(P, 1) percussion tracks are assigned, a dropped
\* track contributes no setup and no note event, the melodic warning is raised
\* iff M > 15, the percussion warning iff P > 1, and no block of the run ends
\* in a fault.
CapacityRecovered ==
  /\ pc \notin PANICS
  /\ pc # "sanity_check" =>
       /\ WarningCount("more SF2 instrument tracks than MIDI channels")
            = (IF MelodicCount > 15 THEN 1 ELSE 0)
       /\ WarningCount("more than one SF2 percussion track")
            = (IF PercussionCount > 1 THEN 1 ELSE 0)
  /\ Assigned =>
       /\ {lmms_track_midi_channel[k][2] : k \in 1..Len(lmms_track_midi_channel)} = KeptTracks
       /\ Len(lmms_track_midi_channel) = Min(MelodicCount, 15) + Min(PercussionCount, 1)
       /\ Cardinality({n \in KeptTracks : IsMelodic(n)}) = Min(MelodicCount, 15)
       /\ Cardinality({n \in KeptTracks : IsPercussion(n)}) = Min(PercussionCount, 1)
  /\ pc = "done" =>
       /\ EmittedCount("MidiChannel") = Cardinality(KeptTracks)
       /\ EmittedCount("ProgramChange") = Cardinality(KeptTracks)
       /\ {midi_track[n].kind.data :
             n \in {k \in 1..Len(midi_track) : midi_track[k].kind.message = "InstrumentName"}}
            = {lmms_project.tracks[n].name : n \in KeptTracks} \ {<<>>}
       /\ {midi_track[n].kind.p1 :
             n \in {k \in 1..Len(midi_track) : midi_track[k].kind.message = "NoteOn"}}
            = UNION {PitchesOf(n) : n \in KeptTracks}
       /\ {midi_track[n].kind.p1 :
             n \in {k \in 1..Len(midi_track) : midi_track[k].kind.message = "NoteOff"}}
            = UNION {PitchesOf(n) : n \in KeptTracks}
       /\ EmittedCount("NoteOn") = Cardinality(UNION {{n} \X NoteIndices(n) : n \in KeptTracks})
       /\ EmittedCount("NoteOff") = EmittedCount("NoteOn")

\* The blocks of main in the order they run.
BLOCKS ==
  <<"sanity_check", "assign", "header", "channel_init", "expand", "loop_styles",
    "sort", "polyphony", "overlap", "delta", "end_of_track", "done">>

BlockRank(block) ==
  IF block \in PANICS THEN 0 ELSE CHOOSE n \in 1..Len(BLOCKS) : BLOCKS[n] = block

\* The length of the list the loop of the current block goes through.
LoopLength ==
  IF pc \in {"channel_init", "expand"} THEN Len(lmms_track_midi_channel)
  ELSE IF pc = "loop_styles" THEN Len(args.loop_style)
  ELSE Len(midi_track_events)

\* A step hands over to the next block, or is one more iteration of the
\* block's loop over a list that stays as long as it is.
RunAdvances ==
  \/ BlockRank(pc') = BlockRank(pc) + 1
  \/ /\ pc' = pc
     /\ cursor <= LoopLength
     /\ cursor' = cursor + 1
     /\ LoopLength' = LoopLength

\* C6: min(M, 15) melodic and min(P, 1) percussion tracks are assigned, a
\* dropped track contributes no setup and no note event, the melodic warning
\* is raised iff M > 15, the percussion warning iff P > 1, and the conversion
\* runs to completion: no block ends in a fault, and every step is the next
\* block or one more iteration of a bounded loop.
C6_CapacityOverflow == []CapacityRecovered /\ [][RunAdvances]_vars

\* A finished run over more melodic and more percussion tracks than fit: both
\* warnings, sixteen tracks kept, the others dropped.
C6_Witness ==
  /\ pc = "done"
  /\ MelodicCount > 15 /\ PercussionCount > 1
  /\ Len(stderr) >= 2
  /\ Cardinality(KeptTracks) = 16
  /\ EmittedCount("MidiChannel") = 16
  /\ \E n \in 1..Len(lmms_project.tracks) :
       n \notin KeptTracks /\ IsMelodic(n) /\ NoteIndices(n) # {}

\* The notes of the assigned tracks: <<place in lmms_track_midi_channel,
\* pattern, note>>.
AssignedNotes ==
  UNION {{<<k, note[1], note[2]>> : note \in NoteIndices(lmms_track_midi_channel[k][2])} :
           k \in 1..Len(lmms_track_midi_channel)}

TrackOfNote(a) == lmms_project.tracks[lmms_track_midi_channel[a[1]][2]]
NoteOf(a) == TrackOfNote(a).patterns[a[2]].notes[a[3]]
ChannelOfNote(a) == lmms_track_midi_channel[a[1]][1]
PitchOfNote(a) == U7From(AsU8(NoteKey(NoteOf(a), TrackOfNote(a), lmms_project.master_pitch)))
OnsetOf(a) == TrackOfNote(a).patterns[a[2]].position + NoteOf(a).position
ReleaseOf(a) == OnsetOf(a) + NoteOf(a).length

SameVoice(a, b) == ChannelOfNote(a) = ChannelOfNote(b) /\ PitchOfNote(a) = PitchOfNote(b)

\* Whether the event at n is a note event of a's channel and pitch.
IsOnOfVoice(n, a) ==
  /\ is_note_on(midi_track_events[n].kind)
  /\ midi_track_events[n].kind.channel = ChannelOfNote(a)
  /\ midi_track_events[n].kind.p1 = PitchOfNote(a)
IsOffOfVoice(n, a) ==
  /\ is_note_off(midi_track_events[n].kind)
  /\ midi_track_events[n].kind.channel = ChannelOfNote(a)
  /\ midi_track_events[n].kind.p1 = PitchOfNote(a)

PolyphonyChecked ==
  IF pc = "polyphony" THEN cursor - 1
  ELSE IF pc \in {"overlap", "delta", "end_of_track", "done"} THEN Len(midi_track_events)
  ELSE 0

\* The notes that sound after the first n sorted events.
SoundingAfter(n) ==
  Cardinality({m \in 1..n : is_note_on(midi_track_events[m].kind)})
  - Cardinality({m \in 1..n : is_note_off(midi_track_events[m].kind)})

\* The note-ons gone through that took the sounding notes from 24 to 25.
CeilingCrossings ==
  {n \in 1..PolyphonyChecked :
     is_note_on(midi_track_events[n].kind) /\ SoundingAfter(n) = MIDI_MAX_POLYPHONY + 1}

PolyphonyWarnings == SelectSeq(stderr, LAMBDA w : w.message = "excessive polyphony")

\* C8: one "excessive polyphony" warning per period in which more than 24
\* notes sound: one at each note-on that takes the count from 24 to 25, with
\* that note-on's tick, and no other.
C8_OneWarningPerExcessPeriod ==
  /\ Len(PolyphonyWarnings) = Cardinality(CeilingCrossings)
  /\ \A n \in CeilingCrossings :
       PolyphonyWarnings[Cardinality({m \in CeilingCrossings : m <= n})].at
         = midi_track_events[n].ticks
  /\ pc \in {"polyphony", "overlap"} =>
       (already_warned <=> SoundingAfter(PolyphonyChecked) > MIDI_MAX_POLYPHONY)

\* A finished run that went over the ceiling, back to 24 sounding notes and
\* over again: two warnings.
C8_Witness ==
  /\ pc = "done"
  /\ Len(PolyphonyWarnings) = 2
  /\ PolyphonyWarnings[1].at < PolyphonyWarnings[2].at
  /\ \E m, n \in CeilingCrossings :
       m < n /\ \E k \in m..n : SoundingAfter(k) = MIDI_MAX_POLYPHONY

\* The overlap check is over.
OverlapChecked == pc \in {"delta", "end_of_track", "done"}

OverlapWarnings == SelectSeq(stderr, LAMBDA w : w.message = "note overlap")

\* The [onset, release) ranges of a and b overlap.
RangesOverlap(a, b) ==
  Max(OnsetOf(a), OnsetOf(b)) < Min(ReleaseOf(a), ReleaseOf(b))

\* C9: two notes of one assigned track and one output pitch whose ranges
\* overlap, with no other note on that channel and pitch (and no two notes on
\* any other), give exactly one "note overlap" warning, at the later onset.
C9_OverlapDetection ==
  OverlapChecked =>
    \A a, b \in AssignedNotes :
      (/\ a # b /\ SameVoice(a, b) /\ RangesOverlap(a, b)
       /\ \A c, d \in AssignedNotes : c # d /\ SameVoice(c, d) => {c, d} = {a, b})
      => OverlapWarnings = <<Warning("note overlap", Max(OnsetOf(a), OnsetOf(b)))>>

\* A finished run over two notes of different patterns and keys that resolve
\* to one pitch and overlap, the second starting later, beside a note of
\* another pitch: one warning.
C9_Witness ==
  /\ pc = "done"
  /\ Len(OverlapWarnings) = 1
  /\ Cardinality(AssignedNotes) = 3
  /\ \E a, b \in AssignedNotes :
       /\ a[2] # b[2] /\ NoteOf(a).key # NoteOf(b).key
       /\ SameVoice(a, b) /\ RangesOverlap(a, b)
       /\ OnsetOf(a) < OnsetOf(b)
       /\ OverlapWarnings[1].at = OnsetOf(b)

\* The places of a's note-off and of the note-ons of b's tick and voice.
OffPlaces(a) ==
  {n \in 1..Len(midi_track_events) :
     /\ IsOffOfVoice(n, a)
     /\ midi_track_events[n].ticks = ReleaseOf(a)
     /\ midi_track_events[n].ticks_event_start = OnsetOf(a)}
OnPlaces(b) ==
  {n \in 1..Len(midi_track_events) :
     IsOnOfVoice(n, b) /\ midi_track_events[n].ticks = OnsetOf(b)}

\* The notes of a's voice that sound after the first n sorted events.
VoiceSoundingAfter(n, a) ==
  Cardinality({m \in 1..n : IsOnOfVoice(m, a)}) - Cardinality({m \in 1..n : IsOffOfVoice(m, a)})

\* C10 as stated: a note-off and the note-on of another note of its channel
\* and pitch at one tick: the note-off stands before the note-on, whatever the
\* notes' lengths.
C10_NoteOffBeforeNoteOn ==
  AfterSort =>
    \A a, b \in AssignedNotes :
      a # b /\ SameVoice(a, b) /\ ReleaseOf(a) = OnsetOf(b)
      => \E m \in OffPlaces(a), n \in OnPlaces(b) : m < n

\* C10 as amended: the note-off stands before the note-on when its note has a
\* length above zero (it started at an earlier tick), and then, with no third
\* note on that channel and pitch, one note sounds after the note-on; the
\* note-off of a zero-length note stands behind every note-on of its tick.
C10_NoteOffOfEarlierNoteFirst ==
  AfterSort =>
    \A a, b \in AssignedNotes :
      a # b /\ SameVoice(a, b) /\ ReleaseOf(a) = OnsetOf(b)
      => /\ OffPlaces(a) # {} /\ OnPlaces(b) # {}
         /\ NoteOf(a).length > 0 =>
              /\ \A m \in OffPlaces(a), n \in OnPlaces(b) : m < n
              /\ (\A c \in AssignedNotes : SameVoice(c, a) => c \in {a, b})
                 => \A n \in OnPlaces(b) : VoiceSoundingAfter(n, b) = 1
         /\ NoteOf(a).length = 0 =>
              /\ \A m \in OffPlaces(a), n \in OnPlaces(b) : n < m
              /\ \E n \in OnPlaces(b) : VoiceSoundingAfter(n, b) >= 2

\* A finished run over a note that ends where a second, zero-length note
\* starts, which in turn ends where a third note starts, all of one pitch.
C10_Witness ==
  /\ pc = "done"
  /\ \E a, b, c \in AssignedNotes :
       /\ a # b /\ b # c /\ a # c /\ SameVoice(a, b) /\ SameVoice(b, c)
       /\ NoteOf(a).length > 0 /\ ReleaseOf(a) = OnsetOf(b)
       /\ NoteOf(b).length = 0 /\ ReleaseOf(b) = OnsetOf(c)
       /\ NoteOf(c).length > 0

\* The events with the events at i and j inserted in each other's place.
Swap(events, i, j) ==
  [n \in 1..Len(events) |->
     IF n = i THEN events[j] ELSE IF n = j THEN events[i] ELSE events[n]]

\* The events of one sort key, in the order they stand.
OfKey(events, key) == SelectSeq(events, LAMBDA event : SortKey(event) = key)

\* How often an event stands in the events.
Occurrences(events, event) == Cardinality({n \in 1..Len(events) : events[n] = event})

\* C11 as stated: whichever two events change places in the insertion order,
\* the sort gives the same final sequence.
C11_InsertionOrderIndependent ==
  [][pc = "sort" =>
       \A i, j \in 1..Len(midi_track_events) :
         SortByKey(Swap(midi_track_events, i, j)) = midi_track_events']_vars

\* C11 as amended: whichever two events change places in the insertion order,
\* the sort gives the same events with the same sequence of sort keys, and the
\* events of one key stand in the order they were inserted; the final
\* sequence is the same when no two different events have one key.
C11_SameUpToTies ==
  [][pc = "sort" =>
       /\ \A key \in {SortKey(midi_track_events[n]) : n \in 1..Len(midi_track_events)} :
            OfKey(midi_track_events', key) = OfKey(midi_track_events, key)
       /\ \A i \in 1..Len(midi_track_events) : \A j \in i..Len(midi_track_events) :
            LET inserted == Swap(midi_track_events, i, j) \o <<>>
                sorted == SortByKey(inserted) \o <<>>
            IN /\ Len(sorted) = Len(midi_track_events')
               /\ \A n \in 1..Len(sorted) :
                    SortKey(sorted[n]) = SortKey(midi_track_events'[n])
               /\ \A event \in {inserted[n] : n \in 1..Len(inserted)} :
                    Occurrences(sorted, event) = Occurrences(midi_track_events', event)
               /\ \A key \in {SortKey(inserted[n]) : n \in 1..Len(inserted)} :
                    OfKey(sorted, key) = OfKey(inserted, key)
               /\ (\A m, n \in 1..Len(midi_track_events) :
                     SortKey(midi_track_events[m]) = SortKey(midi_track_events[n])
                     => midi_track_events[m] = midi_track_events[n])
                  => sorted = midi_track_events']_vars

\* The sort has just run, has moved events, and has left two different events
\* of one sort key side by side in the order they were inserted.
C11_Witness ==
  /\ pc = "polyphony" /\ cursor = 1
  /\ midi_track_events # PushedEvents
  /\ \E n \in 1..(Len(midi_track_events) - 1) :
       /\ SortKey(midi_track_events[n]) = SortKey(midi_track_events[n + 1])
       /\ midi_track_events[n] # midi_track_events[n + 1]
       /\ \E k, l \in 1..Len(PushedEvents) :
            k < l /\ PushedEvents[k] = midi_track_events[n]
                  /\ PushedEvents[l] = midi_track_events[n + 1]

\* The place of note a among the notes in the order they are expanded.
ExpansionRank(a) ==
  1 + Cardinality({b \in AssignedNotes :
                     \/ b[1] < a[1]
                     \/ b[1] = a[1] /\ b[2] < a[2]
                     \/ b[1] = a[1] /\ b[2] = a[2] /\ b[3] < a[3]})

\* The pitch the transform states for note a, before any cast.
StatedPitch(a) ==
  NoteOf(a).key + 69 - TrackOfNote(a).base_note
  + (IF TrackOfNote(a).use_master_pitch = 1 THEN lmms_project.master_pitch ELSE 0)

\* The note events of one channel and pitch in the emitted track.
EmittedNotes(message, channel, pitch) ==
  {n \in 1..Len(midi_track) :
     /\ midi_track[n].kind.message = message
     /\ midi_track[n].kind.channel = channel
     /\ midi_track[n].kind.p1 = pitch}

\* C12: the note-on and the note-off of every note of an assigned track carry
\* one pitch, in 0..127, which is key + 69 - base note, plus the master pitch
\* exactly when the track's flag is 1, whenever that value is in 0..127.
C12_PitchTransform ==
  /\ pc \in {"loop_styles", "sort"} =>
       /\ Len(midi_track_events) >= 2 * Cardinality(AssignedNotes)
       /\ \A a \in AssignedNotes :
            LET on == midi_track_events[2 * ExpansionRank(a) - 1].kind
                off == midi_track_events[2 * ExpansionRank(a)].kind
            IN /\ is_note_on(on) /\ is_note_off(off)
               /\ on.channel = ChannelOfNote(a) /\ off.channel = ChannelOfNote(a)
               /\ on.p1 = off.p1
               /\ on.p1 \in 0..127
               /\ StatedPitch(a) \in 0..127 => on.p1 = StatedPitch(a)
  /\ pc = "done" =>
       /\ \A n \in 1..Len(midi_track) :
            midi_track[n].kind.message \in {"NoteOn", "NoteOff"}
            => midi_track[n].kind.p1 \in 0..127
       /\ \A a \in AssignedNotes :
            StatedPitch(a) \in 0..127 =>
              \E m \in EmittedNotes("NoteOn", ChannelOfNote(a), StatedPitch(a)) :
                \E n \in EmittedNotes("NoteOff", ChannelOfNote(a), StatedPitch(a)) : m < n

\* A finished run over a track that follows a master pitch of +2 and a track
\* that does not: key 60 at base note 69 comes out as 62 and as 60, and a key
\* above the range comes out inside it.
C12_Witness ==
  /\ pc = "done"
  /\ lmms_project.master_pitch = 2
  /\ \E a, b \in AssignedNotes :
       /\ NoteOf(a).key = 60 /\ TrackOfNote(a).base_note = 69
       /\ TrackOfNote(a).use_master_pitch = 1
       /\ EmittedNotes("NoteOn", ChannelOfNote(a), 62) # {}
       /\ NoteOf(b).key = 60 /\ TrackOfNote(b).base_note = 69
       /\ TrackOfNote(b).use_master_pitch # 1
       /\ EmittedNotes("NoteOn", ChannelOfNote(b), 60) # {}
  /\ \E a \in AssignedNotes : StatedPitch(a) > 127

\* How often a loop style is requested.
Requested(loop_style) ==
  Cardinality({n \in 1..Len(args.loop_style) : args.loop_style[n] = loop_style})

\* The scheduled controller changes of one controller number on channel 0 with
\* value 0, and those of them at one tick.
LoopControllers(controller) ==
  {n \in 1..Len(midi_track_events) :
     /\ midi_track_events[n].kind.tag = "Midi"
     /\ midi_track_events[n].kind.message = "Controller"
     /\ midi_track_events[n].kind.channel = 0
     /\ midi_track_events[n].kind.p1 = controller
     /\ midi_track_events[n].kind.p2 = 0}
LoopControllersAt(controller, ticks) ==
  {n \in LoopControllers(controller) :
     midi_track_events[n].ticks = ticks /\ midi_track_events[n].ticks_event_start = ticks}

\* The scheduled markers of one text, and those of them at one tick.
LoopMarkers(text) ==
  {n \in 1..Len(midi_track_events) :
     /\ midi_track_events[n].kind.tag = "Meta"
     /\ midi_track_events[n].kind.message = "Marker"
     /\ midi_track_events[n].kind.data = text}
LoopMarkersAt(text, ticks) ==
  {n \in LoopMarkers(text) :
     midi_track_events[n].ticks = ticks /\ midi_track_events[n].ticks_event_start = ticks}

\* The scheduled events that are no note events.
LoopEvents ==
  {n \in 1..Len(midi_track_events) :
     ~is_note_on(midi_track_events[n].kind) /\ ~is_note_off(midi_track_events[n].kind)}

\* The emitted events of one message and first parameter or text.
EmittedLoopControllers(controller) ==
  {n \in 1..Len(midi_track) :
     /\ midi_track[n].kind.message = "Controller" /\ midi_track[n].kind.p1 = controller}
EmittedLoopMarkers(text) ==
  {n \in 1..Len(midi_track) :
     /\ midi_track[n].kind.message = "Marker" /\ midi_track[n].kind.data = text}

\* C13: each requested loop style contributes its own events and nothing
\* else, whatever other styles are requested: RpgMaker controller 111 at the
\* loop start; EmidiLocal 116 at the loop start and 117 at the loop end;
\* EmidiGlobal 118 and 119; FinalFantasy the markers "loopstart" and
\* "loopend"; without a style there is no loop event.
C13_LoopMarkers ==
  LET loop_start == lmms_project.loop_start
      loop_end == lmms_project.loop_end
      once == [controller \in {111, 116, 117, 118, 119} |->
                 IF controller = 111 THEN Requested("RpgMaker")
                 ELSE IF controller \in {116, 117} THEN Requested("EmidiLocal")
                 ELSE Requested("EmidiGlobal")]
      at == [controller \in {111, 116, 117, 118, 119} |->
               IF controller \in {111, 116, 118} THEN loop_start ELSE loop_end]
  IN /\ AfterSort =>
          /\ \A controller \in {111, 116, 117, 118, 119} :
               /\ Cardinality(LoopControllers(controller)) = once[controller]
               /\ LoopControllersAt(controller, at[controller]) = LoopControllers(controller)
          /\ Cardinality(LoopMarkers(<<108, 111, 111, 112, 115, 116, 97, 114, 116>>))
               = Requested("FinalFantasy")
          /\ LoopMarkersAt(<<108, 111, 111, 112, 115, 116, 97, 114, 116>>, loop_start)
               = LoopMarkers(<<108, 111, 111, 112, 115, 116, 97, 114, 116>>)
          /\ Cardinality(LoopMarkers(<<108, 111, 111, 112, 101, 110, 100>>))
               = Requested("FinalFantasy")
          /\ LoopMarkersAt(<<108, 111, 111, 112, 101, 110, 100>>, loop_end)
               = LoopMarkers(<<108, 111, 111, 112, 101, 110, 100>>)
          /\ Cardinality(LoopEvents)
               = Requested("RpgMaker") + 2 * Requested("EmidiLocal")
                 + 2 * Requested("EmidiGlobal") + 2 * Requested("FinalFantasy")
     /\ pc = "done" =>
          /\ \A controller \in {111, 116, 117, 118, 119} :
               Cardinality(EmittedLoopControllers(controller)) = once[controller]
          /\ Cardinality(EmittedLoopMarkers(<<108, 111, 111, 112, 115, 116, 97, 114, 116>>))
               = Requested("FinalFantasy")
          /\ Cardinality(EmittedLoopMarkers(<<108, 111, 111, 112, 101, 110, 100>>))
               = Requested("FinalFantasy")
          /\ EmittedCount("Marker") = 2 * Requested("FinalFantasy")

\* A finished run with RpgMaker and another style requested together, over
\* notes, the loop ending behind its start.
C13_Witness ==
  /\ pc = "done"
  /\ Len(args.loop_style) = 2
  /\ Requested("RpgMaker") = 1
  /\ Requested("FinalFantasy") + Requested("EmidiLocal") + Requested("EmidiGlobal") = 1
  /\ lmms_project.loop_start < lmms_project.loop_end
  /\ AssignedNotes # {}
  /\ Cardinality(LoopEvents) = 3

\* The header tempo and the per-channel setup events: channel meta, instrument
\* name, bank select coarse and fine, program change, volume and panning.
IsSetupKind(kind) ==
  \/ kind.message \in {"Tempo", "MidiChannel", "InstrumentName", "ProgramChange"}
  \/ kind.message = "Controller" /\ kind.p1 \in {0, 32, 7, 10}

\* The emitted channel events of one message (and controller number) of a channel.
EmittedSetup(message, controller, channel) ==
  {n \in 1..Len(midi_track) :
     /\ midi_track[n].kind.tag = "Midi"
     /\ midi_track[n].kind.message = message
     /\ midi_track[n].kind.channel = channel
     /\ message = "Controller" => midi_track[n].kind.p1 = controller}

\* The emitted channel meta events.
ChannelMetas == {n \in 1..Len(midi_track) : midi_track[n].kind.message = "MidiChannel"}

\* The emitted event at n stands in the setup block of the channel: behind
\* the channel's meta event, no other channel meta in between.
InBlock(metas, n, channel) ==
  \E m \in metas :
    /\ m < n /\ midi_track[m].kind.p1 = channel
    /\ \A k \in metas : ~(m < k /\ k < n)

\* The channel initialization is over.
SetupDone == pc \notin {"sanity_check", "assign", "header", "channel_init"}

\* C14: the header tempo and every setup event of every assigned channel come
\* before every note-on, those at tick 0 included, and the setup blocks stand
\* in ascending channel order, whatever the order of the tracks in the source.
C14_SetupBeforeSound ==
  /\ \A m \in {k \in 1..Len(midi_track) : midi_track[k].kind.message = "NoteOn"} :
       \A n \in {k \in 1..Len(midi_track) : IsSetupKind(midi_track[k].kind)} : n < m
  /\ SetupDone =>
     LET metas == ChannelMetas
     IN
       /\ EmittedCount("Tempo") = 1
       /\ Cardinality(metas) = Len(lmms_track_midi_channel)
       /\ Cardinality({n \in 1..Len(midi_track) :
                         IsSetupKind(midi_track[n].kind) /\ midi_track[n].kind.tag = "Midi"})
            = 5 * Len(lmms_track_midi_channel)
       /\ \A k \in 1..Len(lmms_track_midi_channel) :
            LET channel == lmms_track_midi_channel[k][1]
                name == lmms_project.tracks[lmms_track_midi_channel[k][2]].name
                own == [which \in 1..5 |->
                          EmittedSetup(IF which = 3 THEN "ProgramChange" ELSE "Controller",
                                       <<0, 32, 0, 7, 10>>[which], channel)] \o <<>>
            IN /\ Cardinality({n \in metas : midi_track[n].kind.p1 = channel}) = 1
               /\ \A which \in 1..5 :
                    /\ Cardinality(own[which]) = 1
                    /\ \A n \in own[which] : InBlock(metas, n, channel)
               /\ name # <<>> =>
                    \E n \in 1..Len(midi_track) :
                      /\ midi_track[n].kind.message = "InstrumentName"
                      /\ midi_track[n].kind.data = name
                      /\ InBlock(metas, n, channel)
       /\ \A m, n \in metas : m < n => midi_track[m].kind.p1 < midi_track[n].kind.p1
  /\ pc = "done" => EmittedCount("NoteOn") = Cardinality(AssignedNotes)

\* A finished run over at least eleven assigned tracks, the percussion track
\* ahead of a melodic track in the source but behind it in channel order, and
\* a note-on at tick 0 as the first scheduled event.
C14_Witness ==
  /\ pc = "done"
  /\ Len(lmms_track_midi_channel) >= 11
  /\ \E k, l \in 1..Len(lmms_track_midi_channel) :
       /\ k < l
       /\ lmms_track_midi_channel[k][2] > lmms_track_midi_channel[l][2]
       /\ lmms_track_midi_channel[l][1] = 9
  /\ Len(midi_track_events) > 0
  /\ midi_track_events[1].ticks = 0
  /\ is_note_on(midi_track_events[1].kind)
  /\ EmittedCount("NoteOn") >= 11

====
